---- MODULE Spec2Model ----
(***************************************************************************)
(* Event-Driven-Mediator: the run state machine (WorkflowExecutor.init,    *)
(* WorkflowExecutor.continue, run_ready_steps, parse_input_payload,        *)
(* run_handlers), the state store, and the consumer callbacks of           *)
(* Mediator.listen that start init/continue without awaiting them.         *)
(*                                                                         *)
(* A callback is a task with a position (pc).  A task runs from one await  *)
(* to the next as one action; tasks interleave only at awaits.  Store      *)
(* commands take effect in the order they are issued (one client           *)
(* connection), so a get reads, and a set writes, at the moment the call   *)
(* is made.                                                                *)
(*                                                                         *)
(* The process around it (index.ts, Mediator): the workflow files loaded   *)
(* by init_workflow, the consumers opened by listen, and shutdown.         *)
(***************************************************************************)
EXTENDS Integers, Naturals, Sequences, FiniteSets, Bags, TLC

\* ------------------------------------------------------------------ bounds
MaxMessages == 4        \* messages delivered to the consumers in all
MaxFiles == 2           \* workflow files in the folder read at startup
MaxRuns == 2            \* initiating messages delivered while the folder is modelled
MaxDispatches == 3      \* execute messages for one step of a run under retry

\* ------------------------------------------------------------- data model
Null == [isNull |-> TRUE]
NoState == [missing |-> TRUE]

\* Topics are <ns>.<kind>.<action>; an initiating topic has no kind segment.
Topic(ns, kind, action) == <<ns, kind, action>>
InitTopic == <<"t", "init">>

\* ValidationPatterns.TOPIC_REGEX: the captured middle segment, or "nomatch".
TopicMatch(topic) ==
    IF Len(topic) = 3 /\ topic[2] \in {"success", "failure", "execute"}
    THEN topic[2]
    ELSE "nomatch"

\* An input entry  key: "{{stepName.field}}"  as the regex of
\* parse_input_payload sees it: match is FALSE for any other shape.
Tmpl(key, stepName, field) ==
    [key |-> key, match |-> TRUE, stepName |-> stepName, field |-> field]

NoAction == [action |-> "", max_attempts |-> 0, action_after_attempts |-> ""]
Retry(n, after) ==
    [action |-> "retry", max_attempts |-> n, action_after_attempts |-> after]

StepConfig(name, ns, act, deps, input, on_success, on_failure) ==
    [name |-> name,
     topic |-> Topic(ns, "execute", act),
     depends_on |-> deps,
     input |-> input,
     response_topic |-> [success |-> {Topic(ns, "success", act)},
                         failure |-> {Topic(ns, "failure", act)}],
     on_success |-> on_success,
     on_failure |-> on_failure]

\* The two-step chain of the sample workflow: S1 takes the initiating
\* event's name, S2 depends on S1 and takes S1.v.
ChainFlow ==
    [name |-> "W",
     initiating_event |-> [name |-> "Init", topic |-> InitTopic],
     steps |-> << StepConfig("S1", "a", "x", {}, << Tmpl("name", "Init", "name") >>,
                             <<>>, Retry(3, "abort")),
                  StepConfig("S2", "b", "y", {"S1"},
                             << Tmpl("k", "S1", "v") >>, <<>>, NoAction) >>]

\* Two independent steps and two steps that depend on the first, one of
\* them with a templated input.
ForkFlow ==
    [name |-> "F",
     initiating_event |-> [name |-> "Init", topic |-> InitTopic],
     steps |-> << StepConfig("A", "a", "x", {}, <<>>,
                             << [action |-> "log"] >>, NoAction),
                  StepConfig("B", "b", "y", {}, <<>>, <<>>, Retry(2, "abort")),
                  StepConfig("C", "c", "z", {"A"}, <<>>, <<>>, NoAction),
                  StepConfig("D", "d", "u", {"A"},
                             << Tmpl("k", "A", "v") >>, <<>>, NoAction) >>]

Flows == {ChainFlow, ForkFlow}

\* on_failure: {action: skip} and {action: abort}
Skip == [action |-> "skip", max_attempts |-> 0, action_after_attempts |-> ""]
Abort == [action |-> "abort", max_attempts |-> 0, action_after_attempts |-> ""]

\* A step rescued by skip, a step that aborts and takes the initiating event's
\* name, and a step without a handler that depends on the first.
RescueFlow ==
    [name |-> "R",
     initiating_event |-> [name |-> "Init", topic |-> InitTopic],
     steps |-> << StepConfig("X", "a", "x", {}, <<>>, <<>>, Skip),
                  StepConfig("Y", "b", "y", {}, << Tmpl("name", "Init", "name") >>,
                             <<>>, Abort),
                  StepConfig("Z", "c", "z", {"X"}, <<>>, <<>>, NoAction) >>]

\* ----------------------------------------------------- the workflows folder
\* Two steps that depend on each other.
CyclicFlow ==
    [name |-> "Cy",
     initiating_event |-> [name |-> "Init", topic |-> <<"c", "init">>],
     steps |-> << StepConfig("P", "p", "x", {"Q"}, <<>>, <<>>, NoAction),
                  StepConfig("Q", "q", "y", {"P"}, <<>>, <<>>, NoAction) >>]

\* A step that depends on a name no step of the workflow has.
DanglingFlow ==
    [name |-> "Dg",
     initiating_event |-> [name |-> "Init", topic |-> <<"d", "init">>],
     steps |-> << StepConfig("M", "m", "x", {}, <<>>, <<>>, NoAction),
                  StepConfig("N", "n", "y", {"Ghost"}, <<>>, <<>>, NoAction) >>]

\* A single step: fewer steps than the schema asks for.
ShortFlow ==
    [name |-> "Sh",
     initiating_event |-> [name |-> "Init", topic |-> <<"s", "init">>],
     steps |-> << StepConfig("O", "o", "x", {}, <<>>, <<>>, NoAction) >>]

\* Two steps that list the same response topics, which are also those of the
\* first step of ChainFlow and of ForkFlow.
TwinFlow ==
    [name |-> "Tw",
     initiating_event |-> [name |-> "Init", topic |-> <<"u", "init">>],
     steps |-> << StepConfig("K1", "a", "x", {}, <<>>, <<>>, NoAction),
                  StepConfig("K2", "a", "x", {"K1"}, <<>>, <<>>, NoAction) >>]

WorkflowFiles ==
    {ChainFlow, ForkFlow, CyclicFlow, DanglingFlow, ShortFlow, TwinFlow}

\* The folder as readdir lists it: up to MaxFiles different files, any order.
Folders ==
    UNION {{f \in [1..n -> WorkflowFiles] :
               \A i, j \in 1..n : f[i] = f[j] => i = j} : n \in 0..MaxFiles}

\* A step whose on_success and on_failure actions have no handler, an
\* independent step, and a step that depends on the first.
UnknownFlow ==
    [name |-> "U",
     initiating_event |-> [name |-> "Init", topic |-> InitTopic],
     steps |-> << StepConfig("U", "a", "x", {}, <<>>,
                             << [action |-> "notify"] >>,
                             [action |-> "escalate", max_attempts |-> 0,
                              action_after_attempts |-> ""]),
                  StepConfig("V", "b", "y", {}, <<>>, <<>>, NoAction),
                  StepConfig("W", "c", "z", {"U"}, <<>>, <<>>, NoAction) >>]

\* The same definition with no action on any step.
NoActions(workflow) ==
    [workflow EXCEPT !.steps =
        [i \in DOMAIN workflow.steps |->
            [workflow.steps[i] EXCEPT !.on_success = <<>>,
                                      !.on_failure = NoAction]]]

\* The replies a downstream service may give to an execute message; the
\* output of the second and third lacks "v".
Replies == { [status |-> "success", output |-> [v |-> 42]],
             [status |-> "success", output |-> [w |-> 7]],
             [status |-> "failure", output |-> [w |-> 7]] }
InitOutputs == { [name |-> "o"] }
\* Any JSON object may arrive on the initiating topic; the second has no "name".
InitMessages == InitOutputs \cup { [other |-> "o"] }

StepNames(workflow) == {workflow.steps[i].name : i \in 1..Len(workflow.steps)}
StateKeys(workflow) == StepNames(workflow) \cup {workflow.initiating_event.name}
StepOf(workflow, name) ==
    workflow.steps[CHOOSE i \in 1..Len(workflow.steps) :
                       workflow.steps[i].name = name]

\* A key missing from state.steps is a step state with status "absent".
AbsentStep(name) == [name |-> name, status |-> "absent", payload |-> Null]
OngoingStep(name) == [name |-> name, status |-> "ongoing", payload |-> Null]

EventPayload(workflow_id, success, output) ==
    [workflow_id |-> workflow_id, success |-> success, output |-> output]

VARIABLES
    flow,        \* the loaded workflow definition (immutable after load)
    store,       \* state store: workflow_id -> WorkflowState or NoState
    keyCounter,  \* number of keys handed out by get_new_key
    outbox,      \* bag of the execute messages published
    tasks,       \* bag of consumer callbacks, one per delivered message:
                 \* the running and the finished init/continue invocations
    retry_store, \* RetryStore: "<workflow_id>:<step_name>" -> count or NoState
    folder,      \* the workflow files index.ts has still to load
    failed,      \* names of the files whose load was reported as failed
    workflows,   \* Mediator.workflows: initiating topic -> definition
    consumers,   \* Mediator.consumers: the topics that have an entry
    opened,      \* bag of topics: the consumers created by listen
    connected,   \* bag of topics: the consumers that are connected
    redis,       \* redis_client: "open" or "destroyed"
    phase        \* index.ts: "loading", "listening", "shutdown",
                 \* "disconnected", "exited"

mediatorVars ==
    <<folder, failed, workflows, consumers, opened, connected, redis, phase>>
executorVars == <<flow, store, keyCounter, outbox, tasks, retry_store>>
vars == <<flow, store, keyCounter, outbox, tasks, retry_store, folder, failed,
          workflows, consumers, opened, connected, redis, phase>>

WorkflowIds == 0..MaxMessages      \* 0 is an id no run ever had

\* retry_id = `${ctx.workflow.workflow_id}:${ctx.step.name}`
RetryKey(workflow_id, name) == <<workflow_id, name>>


\* ------------------------------------------------------------ state store
\* A get that answers a missing key with a run in which every step is ongoing.
StateStoreGet_Fresh(st, key) ==
    [type |-> "success",
     data |-> IF key \in DOMAIN st /\ st[key] # NoState
              THEN st[key]
              ELSE [workflow_id |-> key, name |-> flow.name,
                    status |-> "In Progress",
                    steps |-> [n \in StateKeys(flow) |-> OngoingStep(n)]]]

\* StateStore.get: {type: 'failure'} when the key is not found.
StateStoreGet(st, key) ==
    IF key \in DOMAIN st /\ st[key] # NoState
    THEN [type |-> "success", data |-> st[key]]
    ELSE [type |-> "failure", data |-> NoState]

\* StateStore.set: overwrites the whole value under the key.
StateStoreSet(st, key, value) == [st EXCEPT ![key] = value]

\* -------------------------------------------------------- template resolver
\* One entry of step.input resolves when it has the {{Name.field}} shape and
\* steps[Name].payload.output has the field; otherwise parse_input_payload throws.
Resolves(entry, steps) ==
    /\ entry.match
    /\ entry.stepName \in DOMAIN steps
    /\ steps[entry.stepName].status # "absent"
    /\ steps[entry.stepName].payload # Null
    /\ entry.field \in DOMAIN steps[entry.stepName].payload.output

\* A resolution that checks the templates and returns no entries.
parse_input_payload_Empty(step, steps) ==
    [threw |-> \E i \in 1..Len(step.input) : ~ Resolves(step.input[i], steps),
     value |-> <<>>]

parse_input_payload(step, steps) ==
    LET input == step.input
        keys == {input[i].key : i \in 1..Len(input)}
        entryOf(k) == input[CHOOSE i \in 1..Len(input) : input[i].key = k]
    IN  IF \A i \in 1..Len(input) : Resolves(input[i], steps)
        THEN [threw |-> FALSE,
              value |-> [k \in keys |->
                           steps[entryOf(k).stepName].payload.output[entryOf(k).field]]]
        ELSE [threw |-> TRUE, value |-> <<>>]

\* --------------------------------------------------------- run_ready_steps
DoneSteps(state) ==
    {k \in DOMAIN state.steps : state.steps[k].status = "success"}

\* The filter without its depends_on conjunct.
IsReady_NoDeps(step, done_steps) ==
    step.name \notin done_steps

\* ready_steps filter: not done, and every dependency done.
IsReady(step, done_steps) ==
    /\ step.name \notin done_steps
    /\ step.depends_on \subseteq done_steps

ReadySteps(workflow, state) ==
    SelectSeq(workflow.steps, LAMBDA step : IsReady(step, DoneSteps(state)))

\* The sends are issued in definition order until an input fails to resolve
\* (the promise then rejects); the names returned are all the ready steps.
run_ready_steps(workflow, state) ==
    LET ready == ReadySteps(workflow, state)
        bad == {i \in 1..Len(ready) :
                    parse_input_payload(ready[i], state.steps).threw}
        stop == IF bad = {} THEN Len(ready) + 1
                ELSE CHOOSE i \in bad : \A j \in bad : i <= j
    IN  [steps |-> {ready[i].name : i \in 1..Len(ready)},
         sent |-> [i \in 1..(stop - 1) |->
                     [topic |-> ready[i].topic,
                      value |-> parse_input_payload(ready[i], state.steps).value,
                      run |-> state.workflow_id]],
         threw |-> bad # {}]

\* "Save new state for steps marked as ongoing"
MarkOngoing(state, names) ==
    [state EXCEPT !.steps =
        [n \in DOMAIN state.steps |->
            IF n \in names THEN OngoingStep(n) ELSE state.steps[n]]]

\* --------------------------------------------------------------- handlers
\* The part of a failure handler that runs before its first await.
\* skip sets the run status; abort and unregistered names change nothing.
failure_handler(action, state) ==
    IF action = "skip" THEN [state EXCEPT !.status = "Success"] ELSE state

\* The names registered in index.ts.
success_registry == {"log", "log_output"}
failure_registry == {"retry", "skip", "abort"}

\* success handlers (log, log_output) only write to the operator log.
success_handler(action, state) == state

RECURSIVE run_success_actions(_, _)
run_success_actions(actions, state) ==
    IF actions = <<>> THEN state
    ELSE run_success_actions(Tail(actions),
             IF Head(actions).action \in success_registry
             THEN success_handler(Head(actions).action, state)
             ELSE state)

\* run_handlers in which an action without a handler fails the run.
run_handlers_Strict(status, step, state) ==
    IF status = "success"
    THEN IF \A i \in 1..Len(step.on_success) :
                step.on_success[i].action \in success_registry
         THEN state
         ELSE [state EXCEPT !.status = "Failed"]
    ELSE IF step.on_failure.action = "" THEN state
         ELSE IF step.on_failure.action \in failure_registry
              THEN failure_handler(step.on_failure.action, state)
              ELSE [state EXCEPT !.status = "Failed"]

\* run_handlers: each on_success action, or the on_failure action, is looked
\* up in its registry; a name without a handler gives a warning only.
run_handlers(status, step, state) ==
    IF status = "success" THEN run_success_actions(step.on_success, state)
    ELSE IF step.on_failure.action # ""
         THEN IF step.on_failure.action \in failure_registry
              THEN failure_handler(step.on_failure.action, state)
              ELSE state
         ELSE state

\* -------------------------------------------------------------------- init
InitialState(workflow, workflow_id, output) ==
    [workflow_id |-> workflow_id,
     name |-> workflow.name,
     status |-> "In Progress",
     steps |-> [n \in StateKeys(workflow) |->
                  IF n = workflow.initiating_event.name
                  THEN [name |-> n, status |-> "success",
                        payload |-> EventPayload(workflow_id, TRUE, output)]
                  ELSE AbsentStep(n)]]

\* ---------------------------------------------------------------- continue
\* A search that falls back to the first step when no step lists the topic.
FindStep_First(workflow, topic) ==
    LET hits == {i \in 1..Len(workflow.steps) :
                    topic \in workflow.steps[i].response_topic.success
                              \cup workflow.steps[i].response_topic.failure}
    IN  IF hits = {} THEN 1 ELSE CHOOSE i \in hits : \A j \in hits : i <= j

\* The first step that lists the topic as a success or failure response.
FindStep(workflow, topic) ==
    LET hits == {i \in 1..Len(workflow.steps) :
                    topic \in workflow.steps[i].response_topic.success
                              \cup workflow.steps[i].response_topic.failure}
    IN  IF hits = {} THEN 0 ELSE CHOOSE i \in hits : \A j \in hits : i <= j

\* "Check for completion": no declared step is ongoing.
AllStepsCompleted(workflow, state) ==
    ~ \E i \in 1..Len(workflow.steps) :
          state.steps[workflow.steps[i].name].status = "ongoing"

\* The completion check with Success only when every declared step is success.
DetectTerminal_AllSuccess(workflow, state, status) ==
    IF \A i \in 1..Len(workflow.steps) :
           state.steps[workflow.steps[i].name].status = "success"
    THEN [state EXCEPT !.status = "Success"]
    ELSE IF status = "failure"
         THEN [state EXCEPT !.status = "Failed"]
         ELSE state

\* A completion check that sets Success on every success reply.
DetectTerminal_OnSuccess(workflow, state, status) ==
    IF status = "success"
    THEN [state EXCEPT !.status = "Success"]
    ELSE [state EXCEPT !.status = "Failed"]

\* A completion check after which a success reply puts the run In Progress.
DetectTerminal_Reopen(workflow, state, status) ==
    IF AllStepsCompleted(workflow, state)
    THEN [state EXCEPT !.status = "Success"]
    ELSE IF status = "failure"
         THEN [state EXCEPT !.status = "Failed"]
         ELSE [state EXCEPT !.status = "In Progress"]

DetectTerminal(workflow, state, status) ==
    IF AllStepsCompleted(workflow, state)
    THEN [state EXCEPT !.status = "Success"]
    ELSE IF status = "failure"
         THEN [state EXCEPT !.status = "Failed"]
         ELSE state

RecordReply(state, name, status, content) ==
    [state EXCEPT !.steps[name] =
        [name |-> name, status |-> status, payload |-> content]]


\* ------------------------------------------------------------------- tasks
\* A consumer callback and the message it was started for.  dup marks a
\* redelivery; accepted, threw and handled record what happened to the
\* invocation (handled: it has called run_handlers).
Task(kind, pc, topic, content, dup, state) ==
    [kind |-> kind, pc |-> pc, workflow_id |-> content.workflow_id,
     topic |-> topic, content |-> content, dup |-> dup, state |-> state,
     accepted |-> FALSE, threw |-> FALSE, handled |-> FALSE]

\* A finished invocation keeps no local state.
Finish(task) == [task EXCEPT !.pc = "done", !.state = NoState]

\* The returns of continue between the get and the recording of the reply:
\* unknown workflow_id, no step lists the topic, step not ongoing.
Dropped(workflow, state, topic) ==
    \/ state = NoState
    \/ FindStep(workflow, topic) = 0
    \/ state.steps[workflow.steps[FindStep(workflow, topic)].name].status
          # "ongoing"

\* continue up to its first await: the topic check, then state_store.get.
\* The returns that follow the get only end the invocation, so an invocation
\* that takes one of them is finished as soon as the get is answered.
StartContinue(workflow, st, topic, content, dup) ==
    LET got == StateStoreGet(st, content.workflow_id).data
    IN  IF \/ TopicMatch(topic) \in {"nomatch", "execute"}
           \/ Dropped(workflow, got, topic)
        THEN Finish(Task("continue", "done", topic, content, dup, NoState))
        ELSE Task("continue", "loaded", topic, content, dup, got)

RECURSIVE Publish(_, _)
Publish(box, msgs) ==
    IF msgs = <<>> THEN box
    ELSE Publish(box (+) SetToBag({Head(msgs)}), Tail(msgs))

RECURSIVE Copies(_, _)
Copies(box, S) ==
    IF S = {} THEN 0
    ELSE LET m == CHOOSE x \in S : TRUE
         IN  CopiesIn(m, box) + Copies(box, S \ {m})

\* Execute messages published for a step of a run.
Published(workflow_id, step) ==
    Copies(outbox, {m \in BagToSet(outbox) :
                       m.run = workflow_id /\ m.topic = step.topic})

ResponseTopics(step) ==
    step.response_topic.success \cup step.response_topic.failure

\* Replies (not counting redeliveries) sent so far for a step of a run.
Replied(workflow_id, step) ==
    Copies(tasks, {t \in BagToSet(tasks) :
                    /\ t.kind = "continue"
                    /\ ~ t.dup
                    /\ t.workflow_id = workflow_id
                    /\ t.topic \in ResponseTopics(step)})

\* ------------------------------------------- RetryStore and retry handler
\* A stored count is the decimal string RetryStore.set wrote.
NumberString(n) == [value |-> n]

\* util/number: holds of the strings that are written as a number.
is_number_string(value) == DOMAIN value = {"value"} /\ value.value \in Nat

RetryStoreGet(rs, key) ==
    IF rs[key] = NoState THEN [type |-> "success", data |-> 0]
    ELSE IF is_number_string(rs[key]) THEN [type |-> "failure", data |-> 0]
    ELSE [type |-> "success", data |-> rs[key].value]

RetryStoreSet(rs, key, value) == [rs EXCEPT ![key] = NumberString(value)]

\* The workflow_state the action context holds when continue reaches its
\* handlers: the reply recorded and the completion check applied.
ActionContextState(workflow, state, step, status, content) ==
    DetectTerminal(workflow, RecordReply(state, step.name, status, content),
                   status)

\* retry_step without its assignment to the step's state.
retry_step_Unmarked(step, state, st, box, rs) ==
    LET message == parse_input_payload(step, state.steps)
    IN  [state |-> state,
         store |-> StateStoreSet(st, state.workflow_id, state),
         outbox |-> IF message.threw THEN box
                    ELSE Publish(box, <<[topic |-> step.topic,
                                         value |-> message.value,
                                         run |-> state.workflow_id]>>),
         retry_store |-> rs,
         retried |-> TRUE,
         threw |-> message.threw]

\* ActionContext.retry_step: the step marked ongoing, the state persisted,
\* then the execute message resolved and sent (a template that does not
\* resolve throws after the set).
retry_step(step, state, st, box, rs) ==
    LET marked == [state EXCEPT !.steps[step.name] = OngoingStep(step.name)]
        message == parse_input_payload(step, marked.steps)
    IN  [state |-> marked,
         store |-> StateStoreSet(st, state.workflow_id, marked),
         outbox |-> IF message.threw THEN box
                    ELSE Publish(box, <<[topic |-> step.topic,
                                         value |-> message.value,
                                         run |-> state.workflow_id]>>),
         retry_store |-> rs,
         retried |-> TRUE,
         threw |-> message.threw]

\* failure_registry.retry on the action context of a step: the counter is
\* read, raised by one and stored; below max_attempts the step is retried,
\* otherwise the handler named by action_after_attempts runs.
failure_registry_retry(step, state, st, box, rs) ==
    LET retry_id == RetryKey(state.workflow_id, step.name)
        result == RetryStoreGet(rs, retry_id)
        retries_so_far ==
            (IF result.type = "failure" THEN 0 ELSE result.data) + 1
        stored == RetryStoreSet(rs, retry_id, retries_so_far)
    IN  IF retries_so_far >= step.on_failure.max_attempts
        THEN [state |-> failure_handler(step.on_failure.action_after_attempts,
                                        state),
              store |-> st, outbox |-> box, retry_store |-> stored,
              retried |-> FALSE, threw |-> FALSE]
        ELSE retry_step(step, state, st, box, stored)

\* ------------------------------------------- one invocation, await by await
\* Each operator takes the task, the store and the outbox and gives the three
\* after the task has run to its next await.

\* init: new key, initial state, run_ready_steps (the sends are issued), the
\* returned steps marked ongoing, the sends awaited.
init_start(workflow, workflow_id, output, st, box) ==
    LET state == InitialState(workflow, workflow_id, output)
        r == run_ready_steps(workflow, state)
        t == Task("init", "persist", workflow.initiating_event.topic,
                  EventPayload(workflow_id, TRUE, output), FALSE,
                  MarkOngoing(state, r.steps))
    IN  [task |-> IF r.threw THEN Finish([t EXCEPT !.threw = TRUE]) ELSE t,
         store |-> st,
         outbox |-> Publish(box, r.sent)]

\* init: await this.state_store.set(workflow_id, state)
init_persist(t, st, box) ==
    [task |-> Finish(t),
     store |-> StateStoreSet(st, t.workflow_id, t.state),
     outbox |-> box]

\* continue after the get: record the reply, completion check.  A run that is
\* not In Progress is persisted at once; otherwise run_ready_steps issues the
\* sends, the returned steps are marked ongoing and the sends are awaited (a
\* rejected send leaves through finally, past both sets).
continue_loaded(workflow, t, st, box) ==
    LET step == workflow.steps[FindStep(workflow, t.topic)]
        status == TopicMatch(t.topic)
        recorded == RecordReply(t.state, step.name, status, t.content)
        detected == DetectTerminal(workflow, recorded, status)
        r == run_ready_steps(workflow, detected)
        acc == [t EXCEPT !.accepted = TRUE]
    IN  IF detected.status # "In Progress"
        THEN [task |-> Finish(acc),
              store |-> StateStoreSet(st, t.workflow_id, detected),
              outbox |-> box]
        ELSE [task |-> IF r.threw
                       THEN Finish([acc EXCEPT !.threw = TRUE])
                       ELSE [acc EXCEPT !.state = MarkOngoing(detected, r.steps),
                                        !.pc = "handlers"],
              store |-> st,
              outbox |-> Publish(box, r.sent)]

\* continue: run_handlers, then the set inside the try block.
continue_save(workflow, t, st, box) ==
    LET step == workflow.steps[FindStep(workflow, t.topic)]
        handled == run_handlers(TopicMatch(t.topic), step, t.state)
    IN  [task |-> [t EXCEPT !.state = handled, !.pc = "persist",
                            !.handled = TRUE],
         store |-> StateStoreSet(st, t.workflow_id, handled),
         outbox |-> box]

\* continue: the final set, after the producer disconnect of finally.
continue_persist(t, st, box) ==
    [task |-> Finish(t),
     store |-> StateStoreSet(st, t.workflow_id, t.state),
     outbox |-> box]

\* ---------------------------------------------------------------- Mediator
\* StepConfigSchema: a name, an execute topic, success and failure topics.
\* depends_on is an array of strings and nothing more.
StepConfigSchema(step) ==
    /\ step.name # ""
    /\ TopicMatch(step.topic) = "execute"
    /\ \A t \in step.response_topic.success : TopicMatch(t) = "success"
    /\ \A t \in step.response_topic.failure : TopicMatch(t) = "failure"

\* WorkflowConfigSchema.safeParse(parsed).success
WorkflowConfigSchema(workflow) ==
    /\ workflow.name # ""
    /\ workflow.initiating_event.topic # <<>>
    /\ workflow.initiating_event.name # ""
    /\ Len(workflow.steps) >= 2
    /\ \A i \in 1..Len(workflow.steps) : StepConfigSchema(workflow.steps[i])

\* Map.prototype.set
MapSet(map, key, value) ==
    [k \in DOMAIN map \cup {key} |-> IF k = key THEN value ELSE map[k]]

\* flatMap of the success and failure topics of the steps, one entry for
\* each step that lists a topic.
RECURSIVE response_topics(_)
response_topics(steps) ==
    IF steps = <<>> THEN EmptyBag
    ELSE SetToBag(ResponseTopics(Head(steps))) (+) response_topics(Tail(steps))

\* The consumers listen creates: one for each key of the workflows map, then
\* one for each entry of response_topics of each workflow.
RECURSIVE ListenConsumers(_, _)
ListenConsumers(map, keys) ==
    IF keys = {} THEN EmptyBag
    ELSE LET k == CHOOSE x \in keys : TRUE
         IN  SetToBag({k}) (+) response_topics(map[k].steps)
                 (+) ListenConsumers(map, keys \ {k})

\* ----------------------------------------------------------------- actions
InitWith(F) ==
    /\ flow \in F
    /\ store = [k \in WorkflowIds |-> NoState]
    /\ keyCounter = 0
    /\ outbox = EmptyBag
    /\ tasks = EmptyBag
    /\ retry_store = [k \in {RetryKey(w, n) : w \in WorkflowIds,
                                              n \in StepNames(flow)} |-> NoState]
    /\ folder = <<>>
    /\ failed = {}
    /\ workflows = MapSet(<<>>, flow.initiating_event.topic, flow)
    /\ opened = ListenConsumers(workflows, DOMAIN workflows)
    /\ connected = opened
    /\ consumers = BagToSet(opened)
    /\ redis = "open"
    /\ phase = "listening"

Init == InitWith(Flows)

\* Task t has run to its next await with result r.
Resumed(t, r) ==
    /\ tasks' = (tasks (-) SetToBag({t})) (+) SetToBag({r.task})
    /\ store' = r.store
    /\ outbox' = r.outbox
    /\ UNCHANGED <<flow, keyCounter, retry_store, mediatorVars>>

\* Mediator.listen, initiating-topic eachMessage: executor.init is started.
InitDeliver(output) ==
    LET r == init_start(flow, keyCounter + 1, output, store, outbox)
    IN  /\ BagCardinality(tasks) < MaxMessages
        /\ keyCounter' = keyCounter + 1
        /\ tasks' = tasks (+) SetToBag({r.task})
        /\ outbox' = r.outbox
        /\ UNCHANGED <<flow, store, retry_store, mediatorVars>>

InitPersist(t) ==
    /\ t.kind = "init" /\ t.pc = "persist"
    /\ Resumed(t, init_persist(t, store, outbox))

\* A downstream service answers an execute message; the response-topic
\* eachMessage starts executor.continue, which runs to its state_store.get.
Respond(workflow_id, name, reply) ==
    LET step == StepOf(flow, name) IN
    /\ BagCardinality(tasks) < MaxMessages
    /\ Replied(workflow_id, step) < Published(workflow_id, step)
    /\ \E topic \in step.response_topic[reply.status] :
         tasks' = tasks (+) SetToBag({
                    StartContinue(flow, store, topic,
                        EventPayload(workflow_id, reply.status = "success",
                                     reply.output),
                        FALSE)})
    /\ UNCHANGED <<flow, store, keyCounter, outbox, retry_store, mediatorVars>>

\* At-least-once delivery: a reply already delivered is delivered again.
Redeliver(t) ==
    /\ BagCardinality(tasks) < MaxMessages
    /\ t.kind = "continue"
    /\ tasks' = tasks (+) SetToBag({
                  StartContinue(flow, store, t.topic, t.content, TRUE)})
    /\ UNCHANGED <<flow, store, keyCounter, outbox, retry_store, mediatorVars>>

ContinueLoaded(t) ==
    /\ t.kind = "continue" /\ t.pc = "loaded"
    /\ Resumed(t, continue_loaded(flow, t, store, outbox))

ContinueSave(t) ==
    /\ t.kind = "continue" /\ t.pc = "handlers"
    /\ Resumed(t, continue_save(flow, t, store, outbox))

ContinuePersist(t) ==
    /\ t.kind = "continue" /\ t.pc = "persist"
    /\ Resumed(t, continue_persist(t, store, outbox))

Next ==
    \/ \E output \in InitOutputs : InitDeliver(output)
    \/ \E t \in BagToSet(tasks) : InitPersist(t)
    \/ \E w \in 1..keyCounter, name \in StepNames(flow), reply \in Replies :
          Respond(w, name, reply)
    \/ \E t \in BagToSet(tasks) : Redeliver(t)
    \/ \E t \in BagToSet(tasks) : ContinueLoaded(t)
    \/ \E t \in BagToSet(tasks) : ContinueSave(t)
    \/ \E t \in BagToSet(tasks) : ContinuePersist(t)

Spec == Init /\ [][Next]_vars


\* ------------------------------------------- operations applied one by one
\* The same operations with every invocation run to its end before the next
\* message is delivered.
StepTask(workflow, t, st, box) ==
    IF t.kind = "init" THEN init_persist(t, st, box)
    ELSE IF t.pc = "loaded" THEN continue_loaded(workflow, t, st, box)
    ELSE IF t.pc = "handlers" THEN continue_save(workflow, t, st, box)
    ELSE continue_persist(t, st, box)

RECURSIVE RunToEnd(_, _)
RunToEnd(workflow, r) ==
    IF r.task.pc = "done" THEN r
    ELSE RunToEnd(workflow, StepTask(workflow, r.task, r.store, r.outbox))

\* init(flow, output) from call to return.
ApplyInit(workflow, workflow_id, output, st, box) ==
    RunToEnd(workflow, init_start(workflow, workflow_id, output, st, box))

\* continue(workflow, topic, content) from call to return.
ApplyContinue(workflow, topic, content, dup, st, box) ==
    RunToEnd(workflow,
             [task |-> StartContinue(workflow, st, topic, content, dup),
              store |-> st, outbox |-> box])

Applied(r) ==
    /\ tasks' = tasks (+) SetToBag({r.task})
    /\ store' = r.store
    /\ outbox' = r.outbox

SeqInit(output) ==
    /\ BagCardinality(tasks) < MaxMessages
    /\ keyCounter' = keyCounter + 1
    /\ Applied(ApplyInit(flow, keyCounter + 1, output, store, outbox))
    /\ UNCHANGED <<flow, retry_store, mediatorVars>>

SeqRespond(workflow_id, name, reply) ==
    LET step == StepOf(flow, name) IN
    /\ BagCardinality(tasks) < MaxMessages
    /\ Replied(workflow_id, step) < Published(workflow_id, step)
    /\ \E topic \in step.response_topic[reply.status] :
         Applied(ApplyContinue(flow, topic,
                    EventPayload(workflow_id, reply.status = "success",
                                 reply.output),
                    FALSE, store, outbox))
    /\ UNCHANGED <<flow, keyCounter, retry_store, mediatorVars>>

SeqRedeliver(t) ==
    /\ BagCardinality(tasks) < MaxMessages
    /\ t.kind = "continue"
    /\ Applied(ApplyContinue(flow, t.topic, t.content, TRUE, store, outbox))
    /\ UNCHANGED <<flow, keyCounter, retry_store, mediatorVars>>

SeqNext ==
    \/ \E output \in InitOutputs : SeqInit(output)
    \/ \E w \in 1..keyCounter, name \in StepNames(flow), reply \in Replies :
          SeqRespond(w, name, reply)
    \/ \E t \in BagToSet(tasks) : SeqRedeliver(t)

SpecSeq == Init /\ [][SeqNext]_vars

\* The same, for the workflow with skip and abort handlers.
SpecRescue == InitWith({RescueFlow}) /\ [][SeqNext]_vars

\* The same, for the workflow with actions that have no handler.
SpecUnknown == InitWith({UnknownFlow}) /\ [][SeqNext]_vars

\* --------------------------------------------- the retry handler on its own
\* failure_registry.retry called with the action context of a step whose
\* failure reply continue has recorded: ctx.workflow is the run state continue
\* left, ctx.step the failed step.
InvokeRetry(w, name) ==
    LET step == StepOf(flow, name)
        r == failure_registry_retry(step, store[w], store, outbox, retry_store)
    IN  /\ store[w] # NoState
        /\ step.on_failure.action = "retry"
        /\ store[w].steps[name].status = "failure"
        /\ Published(w, step) < MaxDispatches
        /\ store' = r.store
        /\ outbox' = r.outbox
        /\ retry_store' = r.retry_store
        /\ UNCHANGED <<flow, keyCounter, tasks, mediatorVars>>

HandlersNext ==
    \/ \E output \in InitOutputs : SeqInit(output)
    \/ \E w \in 1..keyCounter, name \in StepNames(flow), reply \in Replies :
          SeqRespond(w, name, reply)
    \/ \E w \in 1..keyCounter, name \in StepNames(flow) : InvokeRetry(w, name)

SpecHandlers == Init /\ [][HandlersNext]_vars

\* ------------------------------------------- startup, listen and shutdown
\* The process from its start: nothing loaded, no consumer, the store open.
MediatorInit ==
    /\ flow = NoState
    /\ store = [k \in WorkflowIds |-> NoState]
    /\ keyCounter = 0
    /\ outbox = EmptyBag
    /\ tasks = EmptyBag
    /\ retry_store = <<>>
    /\ folder \in Folders
    /\ failed = {}
    /\ workflows = <<>>
    /\ consumers = {}
    /\ opened = EmptyBag
    /\ connected = EmptyBag
    /\ redis = "open"
    /\ phase = "loading"

\* index.ts: await mediator.init_workflow(filePath) for the next file.  A
\* definition the schema accepts is set under its initiating topic; a thrown
\* parse error is caught and logged.
InitWorkflow ==
    /\ phase = "loading"
    /\ folder # <<>>
    /\ folder' = Tail(folder)
    /\ IF WorkflowConfigSchema(Head(folder))
       THEN /\ workflows' = MapSet(workflows,
                                   Head(folder).initiating_event.topic,
                                   Head(folder))
            /\ failed' = failed
       ELSE /\ workflows' = workflows
            /\ failed' = failed \cup {Head(folder).name}
    /\ UNCHANGED <<executorVars, consumers, opened, connected, redis, phase>>

\* Mediator.listen, once every file has been loaded.
Listen ==
    /\ phase = "loading"
    /\ folder = <<>>
    /\ opened' = ListenConsumers(workflows, DOMAIN workflows)
    /\ connected' = opened'
    /\ consumers' = BagToSet(opened')
    /\ phase' = "listening"
    /\ UNCHANGED <<executorVars, folder, failed, workflows, redis>>

\* A message on an initiating topic with a connected consumer: executor.init
\* with the definition the consumer was created for.  With the store client
\* destroyed the execute messages are still sent and the set that follows
\* is rejected.
InitiatingMessage(topic, output) ==
    LET r == init_start(workflows[topic], keyCounter + 1, output, store, outbox)
    IN  /\ phase \in {"listening", "shutdown"}
        /\ topic \in DOMAIN workflows
        /\ CopiesIn(topic, connected) > 0
        /\ keyCounter < MaxRuns
        /\ keyCounter' = keyCounter + 1
        /\ Applied(IF redis = "open"
                   THEN RunToEnd(workflows[topic], r)
                   ELSE [r EXCEPT !.task = Finish([r.task EXCEPT !.threw = TRUE])])
        /\ UNCHANGED <<flow, retry_store, mediatorVars>>

\* shutdown, up to its await: the flag, redis_client.destroy(), and
\* mediator.disconnect() called.
Shutdown ==
    /\ phase \in {"loading", "listening"}
    /\ redis' = "destroyed"
    /\ phase' = "shutdown"
    /\ UNCHANGED <<executorVars, folder, failed, workflows, consumers, opened,
                   connected>>

\* Mediator.disconnect resolves: every consumer that is a value of the
\* consumers map has disconnected.
Disconnect ==
    /\ phase = "shutdown"
    /\ connected' = connected (-) SetToBag(consumers)
    /\ phase' = "disconnected"
    /\ UNCHANGED <<executorVars, folder, failed, workflows, consumers, opened,
                   redis>>

\* shutdown after its await: process.exit(0) ends the process and with it
\* whatever is still connected.
ShutdownDone ==
    /\ phase = "disconnected"
    /\ connected' = EmptyBag
    /\ phase' = "exited"
    /\ UNCHANGED <<executorVars, folder, failed, workflows, consumers, opened,
                   redis>>

MediatorNext ==
    \/ InitWorkflow
    \/ Listen
    \/ \E topic \in DOMAIN workflows, output \in InitMessages :
          InitiatingMessage(topic, output)
    \/ Shutdown
    \/ Disconnect
    \/ ShutdownDone

SpecMediator == MediatorInit /\ [][MediatorNext]_vars


\* ------------------------------------------------------------------ claims
Tasks == BagToSet(tasks)
Persisted(w) == store[w] # NoState
AllDone(w) == \A t \in Tasks : t.workflow_id = w => t.pc = "done"
StepOfTask(t) == flow.steps[FindStep(flow, t.topic)]
IsReply(t, w) == t.kind = "continue" /\ t.workflow_id = w
Resuming(t) == CopiesIn(t, tasks') < CopiesIn(t, tasks)
StatusIn(st, w, n) == IF st[w] = NoState THEN "absent" ELSE st[w].steps[n].status

LegalEdge(a, b) ==
    \/ a = b
    \/ a = "absent" /\ b = "ongoing"
    \/ a = "ongoing" /\ b \in {"success", "failure"}

\* C1: the persisted status of a step only moves absent -> ongoing ->
\* (success | failure), and once it is success or failure an invocation
\* handling a further response for that step leaves the run state unchanged.
C1_StepStatusMonotone ==
    [][\A w \in WorkflowIds, n \in StepNames(flow) :
          /\ LegalEdge(StatusIn(store, w, n), StatusIn(store', w, n))
          /\ StatusIn(store, w, n) \in {"success", "failure"} =>
                \A t \in Tasks :
                    (IsReply(t, w) /\ StepOfTask(t).name = n /\ Resuming(t))
                        => store'[w] = store[w]]_vars

\* C2: when the replies for two different steps of a run have both been
\* accepted and every callback of the run has finished, the persisted run
\* state records both outcomes.
C2_BothOutcomesPersisted ==
    \A t1, t2 \in Tasks :
        ( /\ t1.kind = "continue" /\ t2.kind = "continue"
          /\ t1.workflow_id = t2.workflow_id
          /\ t1.accepted /\ t2.accepted /\ ~ t1.threw /\ ~ t2.threw
          /\ StepOfTask(t1).name # StepOfTask(t2).name
          /\ AllDone(t1.workflow_id) )
        => /\ StatusIn(store, t1.workflow_id, StepOfTask(t1).name)
                = TopicMatch(t1.topic)
           /\ StatusIn(store, t2.workflow_id, StepOfTask(t2).name)
                = TopicMatch(t2.topic)

\* C3: a persisted run has status Success iff every declared step has
\* status success.
C3_SuccessIffAllSuccess ==
    \A w \in WorkflowIds : Persisted(w) =>
        ( store[w].status = "Success"
          <=> \A n \in StepNames(flow) : store[w].steps[n].status = "success" )

\* C4: a persisted run has status Failed iff some declared step has status
\* failure (a step retried is ongoing again, so its failure no longer shows).
C4_FailedIffFailure ==
    \A w \in WorkflowIds : Persisted(w) =>
        ( store[w].status = "Failed"
          <=> \E n \in StepNames(flow) : store[w].steps[n].status = "failure" )

\* C5: continue applied a second time with the same definition, topic and
\* payload changes neither the store nor the published messages.
C5_ContinueIdempotent ==
    \A w \in 1..keyCounter, n \in StepNames(flow), reply \in Replies :
        \A topic \in StepOf(flow, n).response_topic[reply.status] :
            LET content == EventPayload(w, reply.status = "success", reply.output)
                once == ApplyContinue(flow, topic, content, FALSE, store, outbox)
                twice == ApplyContinue(flow, topic, content, TRUE,
                                       once.store, once.outbox)
            IN  twice.store = once.store /\ twice.outbox = once.outbox

\* C6: a success reply and its duplicate, both processed without an error and
\* at least one of them accepted, with no other reply in the run: no step that
\* depends on the replied step has received more than one execute message.
C6_DuplicateNoExtraDispatch ==
    \A t, d \in Tasks :
        ( /\ t.kind = "continue" /\ ~ t.dup /\ d.dup
          /\ d.topic = t.topic /\ d.content = t.content
          /\ TopicMatch(t.topic) = "success"
          /\ t.pc = "done" /\ d.pc = "done"
          /\ t.accepted \/ d.accepted
          /\ ~ t.threw /\ ~ d.threw
          /\ \A x \in Tasks : IsReply(x, t.workflow_id) => x \in {t, d}
          /\ CopiesIn(t, tasks) = 1 /\ CopiesIn(d, tasks) = 1 )
        => \A i \in 1..Len(flow.steps) :
               StepOfTask(t).name \in flow.steps[i].depends_on
                   => Published(t.workflow_id, flow.steps[i]) <= 1

\* C7: dependency gate.  In every run state, persisted or local to an
\* invocation, a step that is not absent has all its dependencies at success;
\* and a step has an execute message only if the success reply of each of its
\* dependencies was accepted before.
DepsMet(state) ==
    \A i \in 1..Len(flow.steps) :
        state.steps[flow.steps[i].name].status # "absent"
            => \A d \in flow.steps[i].depends_on :
                   d \in DOMAIN state.steps /\ state.steps[d].status = "success"

SucceededBefore(w, d) ==
    \/ d = flow.initiating_event.name
    \/ \E t \in Tasks :
          /\ IsReply(t, w) /\ t.accepted
          /\ d \in StepNames(flow)
          /\ t.topic \in StepOf(flow, d).response_topic.success

C7_DependencyGate ==
    /\ \A w \in WorkflowIds : Persisted(w) => DepsMet(store[w])
    /\ \A t \in Tasks : t.state # NoState => DepsMet(t.state)
    /\ \A w \in WorkflowIds, i \in 1..Len(flow.steps) :
          Published(w, flow.steps[i]) > 0
              => \A d \in flow.steps[i].depends_on : SucceededBefore(w, d)

\* A step with a dependency has been dispatched and is recorded as ongoing.
C7_Witness ==
    \E w \in WorkflowIds, i \in 1..Len(flow.steps) :
        /\ flow.steps[i].depends_on # {}
        /\ Persisted(w)
        /\ store[w].steps[flow.steps[i].name].status = "ongoing"
        /\ Published(w, flow.steps[i]) > 0

\* C8: a step whose on_failure is retry with max_attempts = N never has more
\* than N execute messages published for one run.
C8_RetryBound ==
    \A w \in WorkflowIds, i \in 1..Len(flow.steps) :
        flow.steps[i].on_failure.action = "retry"
            => Published(w, flow.steps[i]) <= flow.steps[i].on_failure.max_attempts

\* C9: happy path of the chain S1 -> S2.  After init alone: one execute
\* message for S1, none for S2.  Once S1's success reply with v = 42 has been
\* processed: exactly one execute message for S2, with body {k: 42}.  Once
\* S2's success reply has been processed: status Success, all steps success.
HappyRun(w) ==
    /\ flow = ChainFlow
    /\ AllDone(w)
    /\ \E t \in Tasks : t.kind = "init" /\ t.workflow_id = w
    /\ \A t \in Tasks : IsReply(t, w) =>
          /\ ~ t.dup /\ t.accepted
          /\ TopicMatch(t.topic) = "success"
          /\ t.content.output = [v |-> 42]
          /\ CopiesIn(t, tasks) = 1

HappyReplied(w, name) ==
    \E t \in Tasks : IsReply(t, w) /\ StepOfTask(t).name = name

C9_HappyPath ==
    \A w \in WorkflowIds : HappyRun(w) =>
        LET S1 == ChainFlow.steps[1]
            S2 == ChainFlow.steps[2]
        IN  /\ ~ HappyReplied(w, "S1") =>
                  Published(w, S1) = 1 /\ Published(w, S2) = 0
            /\ HappyReplied(w, "S1") =>
                  /\ Published(w, S2) = 1
                  /\ CopiesIn([topic |-> S2.topic, value |-> [k |-> 42],
                               run |-> w], outbox) = 1
            /\ HappyReplied(w, "S2") =>
                  /\ store[w].status = "Success"
                  /\ \A n \in StepNames(flow) : store[w].steps[n].status = "success"

\* C10: a run in which every execute message has been answered and every
\* callback has finished (nothing more will happen to it) has status Success
\* or Failed and no step ongoing.
Quiescent(w) ==
    /\ Persisted(w)
    /\ AllDone(w)
    /\ \A i \in 1..Len(flow.steps) :
          Replied(w, flow.steps[i]) >= Published(w, flow.steps[i])

C10_RunTerminates ==
    \A w \in WorkflowIds : Quiescent(w) =>
        /\ store[w].status \in {"Success", "Failed"}
        /\ \A n \in StepNames(flow) : store[w].steps[n].status # "ongoing"

\* C11: once the persisted status of a run is Success or Failed, no later
\* write persists it as In Progress.
Terminal(status) == status \in {"Success", "Failed"}

C11_NoRegression ==
    [][\A w \in WorkflowIds :
          (Persisted(w) /\ Terminal(store[w].status))
              => store'[w].status # "In Progress"]_vars

\* C12: a persisted status Success is kept by every later response; a
\* persisted status Failed is kept when no failed step has a retry or skip
\* handler.
NoRecovery(step) == step.on_failure.action \notin {"retry", "skip"}

FailedForGood(state) ==
    /\ state.status = "Failed"
    /\ \A i \in 1..Len(flow.steps) :
          state.steps[flow.steps[i].name].status = "failure"
              => NoRecovery(flow.steps[i])

C12_TerminalStable ==
    [][\A w \in WorkflowIds : Persisted(w) =>
          /\ store[w].status = "Success" => store'[w].status = "Success"
          /\ FailedForGood(store[w]) => store'[w].status = "Failed"]_vars

\* Replies of one kind ("success" or "failure") delivered for a step of a run.
Delivered(tk, w, step, kind) ==
    Copies(tk, {t \in BagToSet(tk) :
                  /\ t.kind = "continue" /\ t.workflow_id = w
                  /\ t.topic \in step.response_topic[kind]})

PublishedIn(box, w, step) ==
    Copies(box, {m \in BagToSet(box) : m.run = w /\ m.topic = step.topic})

\* The count stored under the retry key, an absent key counting as 0.
StoredCount(rs, w, name) ==
    IF rs[RetryKey(w, name)] = NoState THEN 0 ELSE rs[RetryKey(w, name)].value

RetryThenAbort(step) == step.on_failure = Retry(3, "abort")

\* C13: retry then recover, with the deliveries processed one after the other.
\* For a step with on_failure {retry, 3, abort}: after the first and after the
\* second failure reply the step has been dispatched once more (2, then 3
\* execute messages); the success reply that follows two failures leaves 3
\* execute messages and the run persisted with status Success.
C13_RetryThenRecover ==
    [][\A w \in 1..keyCounter, i \in 1..Len(flow.steps) :
          LET step == flow.steps[i]
              f == Delivered(tasks, w, step, "failure")
              g == Delivered(tasks', w, step, "failure")
              s == Delivered(tasks, w, step, "success")
              u == Delivered(tasks', w, step, "success")
          IN  RetryThenAbort(step) =>
                /\ (u = 0 /\ g \in {1, 2} /\ g = f + 1)
                      => PublishedIn(outbox', w, step) = g + 1
                /\ (f = 2 /\ g = 2 /\ s = 0 /\ u = 1)
                      => /\ PublishedIn(outbox', w, step) = 3
                         /\ store'[w] # NoState
                         /\ store'[w].status = "Success"]_vars

\* C14: retry exhausted, with the deliveries processed one after the other.
\* For a step with on_failure {retry, 3, abort} that gets only failure
\* replies: after the k-th failure (k = 1, 2, 3) the retry counter stored
\* under "<workflow_id>:<step_name>" is k and the step has min(k + 1, 3)
\* execute messages; after the third the run is persisted with status Failed.
C14_RetryExhausted ==
    [][\A w \in 1..keyCounter, i \in 1..Len(flow.steps) :
          LET step == flow.steps[i]
              f == Delivered(tasks, w, step, "failure")
              g == Delivered(tasks', w, step, "failure")
              u == Delivered(tasks', w, step, "success")
          IN  (RetryThenAbort(step) /\ u = 0 /\ g \in {1, 2, 3} /\ g = f + 1)
                => /\ PublishedIn(outbox', w, step) = (IF g < 3 THEN g + 1 ELSE 3)
                   /\ StoredCount(retry_store', w, step.name) = g
                   /\ g = 3 => (store'[w] # NoState /\ store'[w].status = "Failed")]_vars

\* A failure reply for the step, as the response consumer hands it to continue.
FailureContent(w) == EventPayload(w, FALSE, [w |-> 7])

Accepts(st, w, name) == st[w] # NoState /\ st[w].steps[name].status = "ongoing"

\* C15: skip rescue.  Whenever continue accepts a failure reply for a step
\* whose on_failure action is skip, the run it leaves persisted has status
\* Success, the step has status failure, and nothing has been published.
C15_SkipRescue ==
    \A w \in 1..keyCounter, i \in 1..Len(flow.steps) :
        LET step == flow.steps[i] IN
        (step.on_failure.action = "skip" /\ Accepts(store, w, step.name)) =>
            \A topic \in step.response_topic.failure :
                LET r == ApplyContinue(flow, topic, FailureContent(w), FALSE,
                                       store, outbox)
                IN  /\ r.store[w].status = "Success"
                    /\ r.store[w].steps[step.name].status = "failure"
                    /\ r.outbox = outbox

\* C16: whenever continue accepts a failure reply for a step whose on_failure
\* action is abort or absent, the run it leaves persisted has status Failed and
\* the step has status failure with the reply as its payload.
C16_AbortLeavesFailed ==
    \A w \in 1..keyCounter, i \in 1..Len(flow.steps) :
        LET step == flow.steps[i] IN
        (step.on_failure.action \in {"abort", ""} /\ Accepts(store, w, step.name)) =>
            \A topic \in step.response_topic.failure :
                LET r == ApplyContinue(flow, topic, FailureContent(w), FALSE,
                                       store, outbox)
                IN  /\ r.store[w].status = "Failed"
                    /\ r.store[w].steps[step.name] =
                          [name |-> step.name, status |-> "failure",
                           payload |-> FailureContent(w)]

\* The ready steps of a run state whose input does not resolve.
Unresolvable(state) ==
    {i \in 1..Len(flow.steps) :
        /\ IsReady(flow.steps[i], DoneSteps(state))
        /\ parse_input_payload(flow.steps[i], state.steps).threw}

TemplateFailureHandled(r, box, w, state) ==
    \A i \in Unresolvable(state) :
        /\ PublishedIn(r.outbox, w, flow.steps[i]) = PublishedIn(box, w, flow.steps[i])
        /\ r.store[w] # NoState
        /\ r.store[w].steps[flow.steps[i].name].status # "ongoing"
        /\ r.store[w].status = "Failed"

\* C17: unresolvable template.  When init, or a continue that accepts a reply
\* and leaves the run In Progress, makes a step ready whose input does not
\* resolve, no execute message is published for that step, the step is not
\* ongoing in the persisted run, and the run is persisted with status Failed.
C17_TemplateFailure ==
    /\ \A msg \in InitMessages : keyCounter < MaxMessages =>
          LET id == keyCounter + 1
              r == ApplyInit(flow, id, msg, store, outbox)
          IN  TemplateFailureHandled(r, outbox, id, InitialState(flow, id, msg))
    /\ \A w \in 1..keyCounter, i \in 1..Len(flow.steps), reply \in Replies :
          LET step == flow.steps[i]
              content == EventPayload(w, reply.status = "success", reply.output)
          IN  Accepts(store, w, step.name) =>
                \A topic \in step.response_topic[reply.status] :
                    LET r == ApplyContinue(flow, topic, content, FALSE, store, outbox)
                        detected == DetectTerminal(flow,
                                       RecordReply(store[w], step.name,
                                                   reply.status, content),
                                       reply.status)
                    IN  detected.status = "In Progress"
                            => TemplateFailureHandled(r, outbox, w, detected)

\* C18: init, for any initiating message, takes a key that holds no run and
\* leaves a run persisted under it in which the initiating pseudo-step is
\* success with the parsed message as its payload's output; the status is
\* In Progress when no input failed to resolve.
C18_InitPersists ==
    \A msg \in InitMessages : keyCounter < MaxMessages =>
        LET id == keyCounter + 1
            r == ApplyInit(flow, id, msg, store, outbox)
            ev == flow.initiating_event.name
        IN  /\ store[id] = NoState
            /\ r.store[id] # NoState
            /\ r.store[id].workflow_id = id
            /\ r.store[id].steps[ev] =
                  [name |-> ev, status |-> "success",
                   payload |-> EventPayload(id, TRUE, msg)]
            /\ ~ r.task.threw => r.store[id].status = "In Progress"

\* C19: after init, every step without dependencies whose input resolves has
\* exactly one execute message and is recorded as ongoing with null payload;
\* every step with a dependency has no message and is absent.
C19_InitDispatch ==
    \A msg \in InitMessages : keyCounter < MaxMessages =>
        LET id == keyCounter + 1
            r == ApplyInit(flow, id, msg, store, outbox)
            state == InitialState(flow, id, msg)
        IN  \A i \in 1..Len(flow.steps) :
              LET step == flow.steps[i] IN
              /\ (step.depends_on = {}
                    /\ ~ parse_input_payload(step, state.steps).threw)
                   => /\ PublishedIn(r.outbox, id, step) = 1
                      /\ r.store[id] # NoState
                      /\ r.store[id].steps[step.name] = OngoingStep(step.name)
              /\ step.depends_on # {}
                   => /\ PublishedIn(r.outbox, id, step) = 0
                      /\ StatusIn(r.store, id, step.name) = "absent"

\* C20: when a continue that has read the run accepts a success reply and,
\* with the reply recorded, no declared step is ongoing, that continue
\* persists the run with status Success and the replied step at success with
\* the reply as payload.
NoneOngoing(state) ==
    \A n \in StepNames(flow) : state.steps[n].status # "ongoing"

C20_SuccessWhenNoneOngoing ==
    [][\A t \in Tasks :
          ( /\ t.kind = "continue" /\ t.pc = "loaded" /\ Resuming(t)
            /\ TopicMatch(t.topic) = "success"
            /\ NoneOngoing(RecordReply(t.state, StepOfTask(t).name,
                                       "success", t.content)) )
          => /\ store'[t.workflow_id].status = "Success"
             /\ store'[t.workflow_id].steps[StepOfTask(t).name] =
                   [name |-> StepOfTask(t).name, status |-> "success",
                    payload |-> t.content]]_vars

\* The chain's first success reply has been accepted and the run is Success.
C20_Witness ==
    /\ flow = ChainFlow
    /\ \E t \in Tasks :
          /\ t.kind = "continue" /\ t.accepted /\ t.pc = "done"
          /\ TopicMatch(t.topic) = "success"
          /\ StepOfTask(t).name = "S1"
          /\ Persisted(t.workflow_id)
          /\ store[t.workflow_id].status = "Success"
          /\ store[t.workflow_id].steps["S1"].status = "success"
          /\ NoneOngoing(store[t.workflow_id])

\* C21: continue called with a reply whose workflow_id has no run in the store
\* leaves the store as it is (no key is created) and publishes nothing.
C21_UnknownRunDropped ==
    \A w \in WorkflowIds, i \in 1..Len(flow.steps), reply \in Replies :
        store[w] = NoState =>
            \A topic \in flow.steps[i].response_topic[reply.status] :
                LET r == ApplyContinue(flow, topic,
                            EventPayload(w, reply.status = "success", reply.output),
                            FALSE, store, outbox)
                IN  /\ r.store = store
                    /\ r.outbox = outbox
                    /\ ~ r.task.accepted

\* A reply to a published message was delivered while init had not yet
\* persisted the run, and was dropped.
C21_Witness ==
    \E t \in Tasks, u \in Tasks :
        /\ t.kind = "continue" /\ t.pc = "done" /\ ~ t.accepted
        /\ u.kind = "init" /\ u.pc = "persist" /\ u.workflow_id = t.workflow_id
        /\ store[t.workflow_id] = NoState
        /\ Published(t.workflow_id, StepOfTask(t)) > 0

\* Topics no response consumer of the definitions is subscribed to: an execute
\* topic, a topic outside <ns>.<kind>.<action>, a response topic no step lists.
ForeignTopics ==
    { Topic("a", "execute", "x"), InitTopic, Topic("q", "success", "q"),
      Topic("q", "failure", "q") }

\* C22: continue called with an execute topic, a topic that does not match the
\* topic pattern, or a topic no step lists leaves the store as it is and
\* publishes nothing, whatever the payload.
C22_ForeignTopicIgnored ==
    \A w \in 1..keyCounter, topic \in ForeignTopics, reply \in Replies :
        LET r == ApplyContinue(flow, topic,
                    EventPayload(w, reply.status = "success", reply.output),
                    FALSE, store, outbox)
        IN  /\ r.store = store
            /\ r.outbox = outbox
            /\ ~ r.task.accepted

\* A run is persisted with a step ongoing, so that a reply on a listed topic
\* would be accepted, and continue with a foreign topic ends without accepting.
C22_Witness ==
    \E w \in 1..keyCounter, topic \in ForeignTopics :
        /\ Persisted(w)
        /\ store[w].status = "In Progress"
        /\ \E n \in StepNames(flow) : store[w].steps[n].status = "ongoing"
        /\ ApplyContinue(flow, topic, EventPayload(w, TRUE, [v |-> 42]),
                         FALSE, store, outbox).task.pc = "done"

\* C28: with the replies processed one after the other and no retry taking
\* place, no step of a run has more than one execute message: a step that is
\* ongoing is not published again when the reply of another step is processed.
C28_NoRedispatch ==
    \A w \in WorkflowIds, i \in 1..Len(flow.steps) :
        Published(w, flow.steps[i]) <= 1

\* C29: every continue that accepted a reply for a step with a handler for
\* that outcome, and has finished without an error, has called run_handlers
\* (before its last write of the state), also when the completion check has
\* just set the run status to Success or Failed.
HasHandler(step, outcome) ==
    IF outcome = "success" THEN step.on_success # <<>>
    ELSE step.on_failure.action # ""

C29_HandlersAlwaysRun ==
    \A t \in Tasks :
        ( /\ t.kind = "continue" /\ t.accepted /\ t.pc = "done" /\ ~ t.threw
          /\ HasHandler(StepOfTask(t), TopicMatch(t.topic)) )
        => t.handled

\* C30: the terminal condition is re-checked after the handlers.  Whenever the
\* retry handler of a step, called with the action context of an accepted
\* failure reply, re-dispatches the step, the run state it leaves persisted
\* has status In Progress and the step ongoing.
C30_RetryReopensRun ==
    \A w \in 1..keyCounter, i \in 1..Len(flow.steps) :
        LET step == flow.steps[i]
            ctx == ActionContextState(flow, store[w], step, "failure",
                                      FailureContent(w))
            r == failure_registry_retry(step, ctx, store, outbox, retry_store)
        IN  ( /\ Accepts(store, w, step.name)
              /\ step.on_failure.action = "retry"
              /\ r.retried )
            => /\ r.store[w].steps[step.name].status = "ongoing"
               /\ r.store[w].status = "In Progress"

\* Every topic listen has to serve: the initiating and the response topics
\* of the loaded workflows.
ServedTopics ==
    DOMAIN workflows \cup
    UNION {BagToSet(response_topics(workflows[k].steps)) : k \in DOMAIN workflows}

\* C23: once listen has completed, exactly one consumer has been opened for
\* each distinct initiating or response topic of the loaded workflows, also
\* when several steps or several workflows list the same response topic.
C23_OneConsumerPerTopic ==
    phase = "listening" =>
        \A topic \in ServedTopics : CopiesIn(topic, opened) = 1

\* C24: the state store client is released only after every consumer has
\* been disconnected: while the store is torn down no consumer is connected.
C24_ConsumersBeforeStore ==
    redis = "destroyed" => connected = EmptyBag

\* C25: loading a definition whose initiating topic is already indexed is
\* reported as an error and leaves the index by initiating topic unchanged.
C25_DuplicateTopicRejected ==
    [][( /\ phase = "loading" /\ folder # <<>> /\ folder' = Tail(folder)
         /\ Head(folder).initiating_event.topic \in DOMAIN workflows )
       => ( /\ workflows' = workflows
            /\ Head(folder).name \in failed' )]_vars

\* Names reachable from a step by following depends_on once or more.
RECURSIVE DependsOnClosure(_, _)
DependsOnClosure(workflow, names) ==
    LET more == names \cup
                UNION {StepOf(workflow, n).depends_on :
                           n \in names \cap StepNames(workflow)}
    IN  IF more = names THEN names ELSE DependsOnClosure(workflow, more)

Cyclic(workflow) ==
    \E i \in 1..Len(workflow.steps) :
        workflow.steps[i].name
            \in DependsOnClosure(workflow, workflow.steps[i].depends_on)

LoadedAs(name) ==
    {workflows[k] : k \in {x \in DOMAIN workflows : workflows[x].name = name}}

\* C26: a definition whose depends_on relation has a cycle is rejected at
\* load: no indexed definition is cyclic and no run was created from one.
C26_CycleRejected ==
    /\ \A k \in DOMAIN workflows : ~ Cyclic(workflows[k])
    /\ \A w \in WorkflowIds :
          Persisted(w) => \A d \in LoadedAs(store[w].name) : ~ Cyclic(d)

\* C27: a definition in which a step's depends_on names a step that the
\* workflow does not have fails validation and is not loaded.
C27_UnknownDependencyRejected ==
    \A k \in DOMAIN workflows :
        \A i \in 1..Len(workflows[k].steps) :
            workflows[k].steps[i].depends_on \subseteq StepNames(workflows[k])

\* C31: every invocation of the retry handler for a step of a run raises the
\* count stored under "<workflow_id>:<step_name>" by exactly one (an absent
\* key counting as 0, a stored count read back as that count), and retries
\* the step exactly when the new count is below max_attempts.
C31_RetryCounter ==
    \A w \in 1..keyCounter, i \in 1..Len(flow.steps) :
        LET step == flow.steps[i]
            before == StoredCount(retry_store, w, step.name)
            r == failure_registry_retry(step, store[w], store, outbox,
                                        retry_store)
        IN  (Persisted(w) /\ step.on_failure.action = "retry")
            => /\ StoredCount(r.retry_store, w, step.name) = before + 1
               /\ r.retried <=> (before + 1 < step.on_failure.max_attempts)

\* The body of an execute message for a step, resolved against a run state.
ResolvedBody(step, state, body) ==
    /\ DOMAIN body = {step.input[j].key : j \in 1..Len(step.input)}
    /\ \A j \in 1..Len(step.input) :
          body[step.input[j].key] =
              state.steps[step.input[j].stepName].payload
                   .output[step.input[j].field]

Dispatched(st, w, name) ==
    st[w] # NoState /\ st[w].steps[name].status \in {"ongoing", "failure"}

\* C32: retry_step, called for a step of a run that has been dispatched,
\* leaves that step {ongoing, null} and every other step and field of the
\* run as it was, persists that state under workflow_id, and publishes
\* exactly one message, on the step's execute topic, with the body resolved
\* against that state.
C32_RetryStep ==
    \A w \in 1..keyCounter, i \in 1..Len(flow.steps) :
        LET step == flow.steps[i]
            r == retry_step(step, store[w], store, outbox, retry_store)
            new == r.outbox (-) outbox
        IN  Dispatched(store, w, step.name)
            => /\ r.store[w] = [store[w] EXCEPT !.steps[step.name] =
                                    OngoingStep(step.name)]
               /\ \A k \in WorkflowIds \ {w} : r.store[k] = store[k]
               /\ ~ r.threw
               /\ outbox \sqsubseteq r.outbox
               /\ BagCardinality(new) = 1
               /\ \A m \in BagToSet(new) :
                     /\ m.topic = step.topic
                     /\ m.run = w
                     /\ ResolvedBody(step, r.store[w], m.value)

\* A retry has taken place: the step has a second execute message and is
\* ongoing again in the persisted run.
C32_Witness ==
    \E w \in 1..keyCounter, i \in 1..Len(flow.steps) :
        /\ Persisted(w)
        /\ flow.steps[i].on_failure.action = "retry"
        /\ StoredCount(retry_store, w, flow.steps[i].name) = 1
        /\ Published(w, flow.steps[i]) = 2
        /\ store[w].steps[flow.steps[i].name].status = "ongoing"

StepWithTopic(topic) ==
    flow.steps[CHOOSE i \in 1..Len(flow.steps) : flow.steps[i].topic = topic]

\* C33: the body of every execute message is exactly the step's resolved
\* input mapping.  Every message published has the declared input keys of
\* its step and no other key (no workflow_id; the empty mapping for a step
\* without input), and every message run_ready_steps sends for a persisted
\* run carries, under each key, steps[Name].payload.output[field] of that
\* run state.
C33_ExecuteBody ==
    /\ \A m \in BagToSet(outbox) :
          /\ \E i \in 1..Len(flow.steps) : flow.steps[i].topic = m.topic
          /\ DOMAIN m.value =
                {StepWithTopic(m.topic).input[j].key :
                     j \in 1..Len(StepWithTopic(m.topic).input)}
    /\ \A w \in 1..keyCounter :
          Persisted(w) =>
              LET r == run_ready_steps(flow, store[w])
              IN  \A j \in 1..Len(r.sent) :
                      ResolvedBody(StepWithTopic(r.sent[j].topic), store[w],
                                   r.sent[j].value)

\* A message with a resolved entry has been published for a step whose
\* input refers to the output of an earlier step.
C33_Witness ==
    \E m \in BagToSet(outbox) :
        /\ StepWithTopic(m.topic).input # <<>>
        /\ StepWithTopic(m.topic).depends_on # {}
        /\ Persisted(m.run)
        /\ \A j \in 1..Len(StepWithTopic(m.topic).input) :
              Resolves(StepWithTopic(m.topic).input[j], store[m.run].steps)
        /\ ResolvedBody(StepWithTopic(m.topic), store[m.run], m.value)

UnknownAction(step, outcome) ==
    IF outcome = "success"
    THEN \E i \in 1..Len(step.on_success) :
             step.on_success[i].action \notin success_registry
    ELSE step.on_failure.action \notin failure_registry \cup {""}

\* C34: an action name without a handler is a no-op.  Processing a reply for
\* a step with such an action leaves the same store and the same published
\* messages, and ends with an error or without one, exactly as processing it
\* under the same definition with no action.
C34_UnknownActionNoOp ==
    \A w \in 1..keyCounter, i \in 1..Len(flow.steps), reply \in Replies :
        \A topic \in flow.steps[i].response_topic[reply.status] :
            LET content == EventPayload(w, reply.status = "success",
                                        reply.output)
                a == ApplyContinue(flow, topic, content, FALSE, store, outbox)
                b == ApplyContinue(NoActions(flow), topic, content, FALSE,
                                   store, outbox)
            IN  UnknownAction(flow.steps[i], reply.status)
                => /\ a.store = b.store
                   /\ a.outbox = b.outbox
                   /\ a.task.threw = b.task.threw
                   /\ a.task.accepted = b.task.accepted

\* continue has run the handlers of a step whose action has no handler.
C34_Witness ==
    \E t \in Tasks :
        /\ t.kind = "continue" /\ t.accepted /\ t.handled /\ ~ t.threw
        /\ UnknownAction(StepOfTask(t), TopicMatch(t.topic))

\* C35: a reply never overtakes init.  Whenever a reply for a step of a run
\* is handed to continue, the run state is in the store, so the reply is not
\* dropped as an unknown workflow_id.
C35_ReplyFindsRun ==
    [][\A w \in 1..keyCounter', i \in 1..Len(flow.steps) :
          LET step == flow.steps[i]
              before == Delivered(tasks, w, step, "success")
                            + Delivered(tasks, w, step, "failure")
              after == Delivered(tasks', w, step, "success")
                           + Delivered(tasks', w, step, "failure")
          IN  after > before => store[w] # NoState]_vars

\* C36: with the invocations run one after the other, every step that has an
\* execute message is ongoing or later in the persisted run, also when the
\* template of another step of the same batch did not resolve.
C36_PublishedIsRecorded ==
    \A w \in 1..keyCounter, i \in 1..Len(flow.steps) :
        Published(w, flow.steps[i]) > 0
            => /\ Persisted(w)
               /\ store[w].steps[flow.steps[i].name].status # "absent"

\* C37: under any interleaving of the callbacks, a persisted run with status
\* Success has no declared step with status ongoing.
C37_SuccessHasNoOngoing ==
    \A w \in WorkflowIds :
        (Persisted(w) /\ store[w].status = "Success")
            => \A i \in 1..Len(flow.steps) :
                   store[w].steps[flow.steps[i].name].status # "ongoing"

\* A run persisted with status Success after at least two replies were
\* accepted for it.
C37_Witness ==
    \E w \in 1..keyCounter :
        /\ Persisted(w)
        /\ store[w].status = "Success"
        /\ \E t, u \in Tasks :
              /\ t # u
              /\ IsReply(t, w) /\ t.accepted /\ t.pc = "done"
              /\ IsReply(u, w) /\ u.accepted /\ u.pc = "done"

C39_DisconnectReachesAll ==
    phase = "disconnected" => connected = EmptyBag

====
